---- MODULE Spec2Model ----
(***************************************************************************)
(* Model of szks-repo/taxi-meter-go (src/main.go): the fare engine         *)
(* TaxiMeter and the ride-session state machine RideSession.               *)
(*                                                                         *)
(* Distances are float64 kilometres in the source.  Every distance the     *)
(* model handles is a decimal number of metres written as a float64        *)
(* literal, or the result of float64 +, - on such numbers, so a float64    *)
(* value is kept EXACTLY as the pair [m, e]:                               *)
(*        value  =  m / 1000  +  e * 2^-62 / 1000      (kilometres)        *)
(* m is the decimal number of metres the value stands for and e is the     *)
(* IEEE-754 rounding error it carries, in units of 2^-62 / 1000 km.  The   *)
(* F64 operators below compute round-to-nearest-even results on that       *)
(* representation, bit for bit what the float64 arithmetic of the source   *)
(* computes.  Durations are whole seconds (time.Duration is an integer),   *)
(* timestamps are a logical clock.                                         *)
(***************************************************************************)
EXTENDS Integers, Sequences, FiniteSets, TLC

VARIABLES
    tm,     \* the TaxiMeter (RideSession.Meter)
    rs,     \* the RideSession fields other than Meter
    ret,    \* the value returned by the last call
    call,   \* the last call: operation and argument
    now,    \* logical clock: the timestamp the next call carries
    hist    \* history of the fare: what each pricing rule has charged

vars == <<tm, rs, ret, call, now, hist>>

----------------------------------------------------------------------------
(* Bounds *)

\* number of RideSession.ProcessEvent calls in one behaviour
MaxEvents == 6

\* number of TaxiMeter.ProcessEvent calls on a TaxiMeter used on its own
MaxMeterEvents == 5

----------------------------------------------------------------------------
(* float64 arithmetic, exact *)

\* 2^n mod 125 for n < 80, without leaving 32 bits
Pow2Mod125(n) ==
    (((2^(n % 20)) % 125) * ((((2^20) % 125)^(n \div 20)) % 125)) % 125

RECURSIVE F64Log2(_, _)
F64Log2(s, j) == IF 1000 * 2^(j + 1) <= s THEN F64Log2(s, j + 1) ELSE j

\* binary exponent of m/1000 + e*eps, offset by 10: the value lies in
\* [2^(j-10), 2^(j-9)) and one unit in the last place is 1000 * 2^j eps
F64Exp(m, e) ==
    LET Exp(j) == IF 1000 * 2^j = m * 1024 /\ e < 0 THEN j - 1 ELSE j
    IN  Exp(F64Log2(m * 1024, 0))

\* (m * 2^62 + e) mod (1000 * 2^j), without leaving 32 bits
F64Residue(m, e, j) ==
    ((2^(j + 3)) * (((m % 125) * Pow2Mod125(59 - j)) % 125) + e) % (1000 * 2^j)

\* round the exact non-negative value m/1000 + e*eps to the nearest float64,
\* ties to even.  m = 0 only arises as the difference of two float64 within a
\* factor two of each other, which is exact (Sterbenz).
F64Round(m, e) ==
    IF m = 0 THEN [m |-> 0, e |-> e]
    ELSE LET Nearest(ulp, r, r2) ==
                 IF 2 * r < ulp THEN [m |-> m, e |-> e - r]
                 ELSE IF 2 * r > ulp THEN [m |-> m, e |-> e - r + ulp]
                 ELSE IF r2 >= ulp THEN [m |-> m, e |-> e - r + ulp]
                 ELSE [m |-> m, e |-> e - r]
             At(j) == Nearest(1000 * 2^j, F64Residue(m, e, j),
                              F64Residue(m, e, j + 1))
         IN  At(F64Exp(m, e))

\* the float64 a decimal literal of m metres (m/1000 km) denotes
F64Lit(m) == F64Round(m, 0)

F64IsNeg(x) == x.m < 0 \/ (x.m = 0 /\ x.e < 0)

F64Le(x, y) == x.m < y.m \/ (x.m = y.m /\ x.e <= y.e)

F64Add(x, y) == F64Round(x.m + y.m, x.e + y.e)

F64Sub(x, y) ==
    LET Neg(r) == [m |-> 0 - r.m, e |-> 0 - r.e]
        Signed(m, e) == IF m < 0 \/ (m = 0 /\ e < 0)
                        THEN Neg(F64Round(0 - m, 0 - e))
                        ELSE F64Round(m, e)
    IN  Signed(x.m - y.m, x.e - y.e)

RECURSIVE F64PredExp(_, _)
F64PredExp(k, b) == IF 2^(b + 1) < k THEN F64PredExp(k, b + 1) ELSE b

\* int(x / y) for float64 x >= 0, y > 0: the quotient is rounded to float64
\* and then truncated.  The rounded quotient differs from the exact one across
\* an integer k only when x stands for exactly k times the metres of y and the
\* carried errors put x/y within half a unit in the last place below k.
F64DivTrunc(x, y) ==
    LET Below(k, L, A) ==
            IF (y.e >= 0 /\ L <= A) \/ (y.e < 0 /\ L < A) THEN k ELSE k - 1
        Trunc(k) ==
            IF x.m % y.m # 0 THEN k
            ELSE IF x.e >= k * y.e THEN k
            ELSE Below(k, k * y.e - x.e, y.m * 2^(F64PredExp(k, 0 - 1) + 9))
    IN  Trunc(x.m \div y.m)

----------------------------------------------------------------------------
(* Types and configuration *)

TripEventTypeStart == 1
TripEventTypeMove == 2
TripEventTypeStop == 3
TripEventTypeEnd == 4

StatusWaiting == "waiting"
StatusPickingUp == "picking_up"
StatusOnboard == "onboard"
StatusCompleted == "completed"
StatusCancelled == "cancelled"

PaymentMethodCash == "cash"
PaymentMethodCard == "card"
PaymentMethodDigital == "digital"

\* the FareConfig of main: distances in metres, TimeUnit in seconds
config ==
    [InitialFare     |-> 500,
     InitialDistance |-> F64Lit(1096),
     UnitFare        |-> 100,
     UnitDistance    |-> F64Lit(237),
     TimeThreshold   |-> 10,
     TimeUnitFare    |-> 100,
     TimeUnit        |-> 60 + 30]

\* a TripEvent; Distance is given in metres and converted as the literal is
TripEvent(type, distance, duration, speed) ==
    [EventType |-> type, Timestamp |-> 0, Distance |-> F64Lit(distance),
     Duration |-> duration, Speed |-> speed]

\* the zero EventResult with an empty LogMessages
EventResult ==
    [Success |-> FALSE, Message |-> "", FareChange |-> 0, NewTotalFare |-> 0,
     LogMessages |-> <<>>, Error |-> ""]

NewTaxiMeter ==
    [TotalDistance |-> F64Lit(0), TotalTime |-> 0, CurrentFare |-> 0,
     IsRunning |-> FALSE, StartTime |-> 0, LastEventTime |-> 0]

NewRideSession ==
    [SessionID |-> "ride-001", Driver |-> "driver-123",
     Passenger |-> "passenger-456", StartTime |-> 0, EndTime |-> <<>>,
     Status |-> StatusWaiting, Events |-> <<>>, PaymentInfo |-> <<>>]

----------------------------------------------------------------------------
(* TaxiMeter *)

calculateDistanceFare(m, distance) ==
    IF F64Le(m.TotalDistance, config.InitialDistance)
    THEN [Amount |-> 0, Units |-> 0]
    ELSE LET chargeableDistance == F64Sub(m.TotalDistance, config.InitialDistance)
             units == F64DivTrunc(chargeableDistance, config.UnitDistance)
             previousDistance == F64Sub(m.TotalDistance, distance)
             NotBelowZero(previousChargeableDistance) ==
                 IF F64IsNeg(previousChargeableDistance) THEN F64Lit(0)
                 ELSE previousChargeableDistance
             previousChargeableDistance ==
                 NotBelowZero(F64Sub(previousDistance, config.InitialDistance))
             previousUnits ==
                 F64DivTrunc(previousChargeableDistance, config.UnitDistance)
             FareInfo(additionalUnits) ==
                 IF additionalUnits <= 0
                 THEN [Amount |-> 0, Units |-> 0]
                 ELSE [Amount |-> additionalUnits * config.UnitFare,
                       Units |-> additionalUnits]
         IN  FareInfo(units - previousUnits)

calculateTimeFareOnTotalTime(m, duration) ==
    LET FareInfo(units) ==
            IF units <= 0
            THEN [Amount |-> 0, Units |-> 0]
            ELSE [Amount |-> units * config.TimeUnitFare, Units |-> units]
    IN  FareInfo(m.TotalTime \div config.TimeUnit)

calculateTimeFare(m, duration) ==
    LET FareInfo(units) ==
            IF units <= 0
            THEN [Amount |-> 0, Units |-> 0]
            ELSE [Amount |-> units * config.TimeUnitFare, Units |-> units]
    IN  FareInfo(duration \div config.TimeUnit)

generateSummaryMessages(m) == <<"total distance", "total time", "final fare">>

startTripKeepingTotals(m, event) ==
    IF m.IsRunning
    THEN [tm |-> m,
          result |-> [EventResult EXCEPT !.Error = "trip already started",
                                         !.Message = "meter start failed"]]
    ELSE [tm |-> [m EXCEPT !.IsRunning = TRUE,
                           !.StartTime = event.Timestamp,
                           !.LastEventTime = event.Timestamp,
                           !.CurrentFare = config.InitialFare],
          result |-> [EventResult EXCEPT !.Success = TRUE,
                                         !.Message = "meter started",
                                         !.LogMessages = <<"ride start">>]]

startTrip(m, event) ==
    IF m.IsRunning
    THEN [tm |-> m,
          result |-> [EventResult EXCEPT !.Error = "trip already started",
                                         !.Message = "meter start failed"]]
    ELSE LET m2 == [m EXCEPT !.IsRunning = TRUE,
                             !.StartTime = event.Timestamp,
                             !.LastEventTime = event.Timestamp,
                             !.CurrentFare = config.InitialFare,
                             !.TotalDistance = F64Lit(0),
                             !.TotalTime = 0]
         IN  [tm |-> m2,
              result |-> [EventResult EXCEPT !.Success = TRUE,
                                             !.Message = "meter started",
                                             !.LogMessages = <<"ride start">>]]

IsLowSpeedStrict(event) == event.Speed < config.TimeThreshold

\* event.Speed <= tm.Config.TimeThreshold
IsLowSpeed(event) == event.Speed <= config.TimeThreshold

processMovement(m, event) ==
    IF ~m.IsRunning
    THEN [tm |-> m,
          result |-> [EventResult EXCEPT !.Error = "trip not started",
                                         !.Message = "movement failed"]]
    ELSE LET oldFare == m.CurrentFare
             lowSpeed == IsLowSpeed(event)
             log1 == IF lowSpeed THEN <<"low-speed move: time-rate fare">>
                     ELSE <<"normal move: distance-rate fare">>
             Charged(m2, fareInfo) ==
                 [tm |-> m2,
                  result |-> [EventResult EXCEPT
                                  !.Success = TRUE,
                                  !.Message = "movement processed",
                                  !.FareChange = m2.CurrentFare - oldFare,
                                  !.LogMessages =
                                      log1 \o
                                      (IF fareInfo.Amount > 0
                                       THEN IF lowSpeed
                                            THEN <<"time fare added">>
                                            ELSE <<"distance fare added">>
                                       ELSE <<>>)]]
             Charge(m1, fareInfo) ==
                 Charged([m1 EXCEPT !.CurrentFare = @ + fareInfo.Amount],
                         fareInfo)
             Moved(m1) ==
                 Charge(m1, IF lowSpeed
                            THEN calculateTimeFare(m1, event.Duration)
                            ELSE calculateDistanceFare(m1, event.Distance))
         IN  Moved([m EXCEPT !.TotalDistance = F64Add(@, event.Distance),
                             !.TotalTime = @ + event.Duration,
                             !.LastEventTime = event.Timestamp])

processStopUnchecked(m, event) ==
    LET oldFare == m.CurrentFare
        Charged(m2, fareInfo) ==
            [tm |-> m2,
             result |-> [EventResult EXCEPT
                             !.Success = TRUE,
                             !.Message = "stop processed",
                             !.FareChange = m2.CurrentFare - oldFare,
                             !.LogMessages = <<"stopped: time-rate fare">>]]
        Charge(m1, fareInfo) ==
            Charged([m1 EXCEPT !.CurrentFare = @ + fareInfo.Amount], fareInfo)
        Stopped(m1) == Charge(m1, calculateTimeFare(m1, event.Duration))
    IN  Stopped([m EXCEPT !.TotalTime = @ + event.Duration,
                          !.LastEventTime = event.Timestamp])

processStop(m, event) ==
    IF ~m.IsRunning
    THEN [tm |-> m,
          result |-> [EventResult EXCEPT !.Error = "trip not started",
                                         !.Message = "stop failed"]]
    ELSE LET oldFare == m.CurrentFare
             Charged(m2, fareInfo) ==
                 [tm |-> m2,
                  result |-> [EventResult EXCEPT
                                  !.Success = TRUE,
                                  !.Message = "stop processed",
                                  !.FareChange = m2.CurrentFare - oldFare,
                                  !.LogMessages =
                                      <<"stopped: time-rate fare">> \o
                                      (IF fareInfo.Amount > 0
                                       THEN <<"time fare added">> ELSE <<>>)]]
             Charge(m1, fareInfo) ==
                 Charged([m1 EXCEPT !.CurrentFare = @ + fareInfo.Amount],
                         fareInfo)
             Stopped(m1) == Charge(m1, calculateTimeFare(m1, event.Duration))
         IN  Stopped([m EXCEPT !.TotalTime = @ + event.Duration,
                               !.LastEventTime = event.Timestamp])

endTripLeavingRunning(m, event) ==
    IF ~m.IsRunning
    THEN [tm |-> m,
          result |-> [EventResult EXCEPT !.Error = "trip not started",
                                         !.Message = "end failed"]]
    ELSE [tm |-> m,
          result |-> [EventResult EXCEPT
                          !.Success = TRUE,
                          !.Message = "meter ended",
                          !.LogMessages =
                              <<"ride end">> \o generateSummaryMessages(m)]]

endTripClearingFare(m, event) ==
    IF ~m.IsRunning
    THEN [tm |-> m,
          result |-> [EventResult EXCEPT !.Error = "trip not started",
                                         !.Message = "end failed"]]
    ELSE [tm |-> [m EXCEPT !.IsRunning = FALSE, !.CurrentFare = 0],
          result |-> [EventResult EXCEPT !.Success = TRUE,
                                         !.Message = "meter ended",
                                         !.LogMessages = <<"ride end">>]]

endTrip(m, event) ==
    IF ~m.IsRunning
    THEN [tm |-> m,
          result |-> [EventResult EXCEPT !.Error = "trip not started",
                                         !.Message = "end failed"]]
    ELSE LET m2 == [m EXCEPT !.IsRunning = FALSE]
         IN  [tm |-> m2,
              result |-> [EventResult EXCEPT
                              !.Success = TRUE,
                              !.Message = "meter ended",
                              !.LogMessages =
                                  <<"ride end">> \o generateSummaryMessages(m2)]]

TaxiMeterProcessEventKeepingDelta(m, event) ==
    IF event.EventType \notin {TripEventTypeStart, TripEventTypeMove,
                               TripEventTypeStop, TripEventTypeEnd}
    THEN [tm |-> m,
          result |-> [EventResult EXCEPT !.Error = "unknown event type",
                                         !.Message = "unknown event type"]]
    ELSE CASE event.EventType = TripEventTypeStart -> startTrip(m, event)
           [] event.EventType = TripEventTypeMove -> processMovement(m, event)
           [] event.EventType = TripEventTypeStop -> processStop(m, event)
           [] event.EventType = TripEventTypeEnd -> endTrip(m, event)

\* TaxiMeter.ProcessEvent
TaxiMeterProcessEvent(m, event) ==
    IF event.EventType \notin {TripEventTypeStart, TripEventTypeMove,
                               TripEventTypeStop, TripEventTypeEnd}
    THEN [tm |-> m,
          result |-> [EventResult EXCEPT !.Error = "unknown event type",
                                         !.Message = "unknown event type"]]
    ELSE LET oldFare == m.CurrentFare
             Result(out) ==
                 [tm |-> out.tm,
                  result |-> [out.result EXCEPT
                                  !.FareChange = out.tm.CurrentFare - oldFare,
                                  !.NewTotalFare = out.tm.CurrentFare]]
         IN  Result(CASE event.EventType = TripEventTypeStart -> startTrip(m, event)
                      [] event.EventType = TripEventTypeMove -> processMovement(m, event)
                      [] event.EventType = TripEventTypeStop -> processStop(m, event)
                      [] event.EventType = TripEventTypeEnd -> endTrip(m, event))

GetCurrentFare(m) == m.CurrentFare

GetTotalDistance(m) == m.TotalDistance

----------------------------------------------------------------------------
(* RideSession *)

RecordEventAtFront(s, event) == [s EXCEPT !.Events = <<event>> \o @]

\* rs.Events = append(rs.Events, event)
RecordEvent(s, event) == [s EXCEPT !.Events = Append(@, event)]

StartAllowedUnlessOnboard(s) == s.Status # StatusOnboard

\* the status a Start event needs
StartAllowed(s) == s.Status = StatusWaiting

EndAllowedUnlessCompleted(s) == s.Status # StatusCompleted

\* the status an End event needs
EndAllowed(s) == s.Status = StatusOnboard

\* RideSession.ProcessEvent: the session s, its Meter m
RideSessionProcessEvent(s, m, event) ==
    LET s1 == RecordEvent(s, event)
    IN  IF event.EventType = TripEventTypeStart /\ ~StartAllowed(s1)
        THEN [rs |-> s1, tm |-> m,
              result |-> [EventResult EXCEPT
                              !.Error = "cannot start ride in status",
                              !.Message = "session start failed"]]
        ELSE IF event.EventType = TripEventTypeEnd /\ ~EndAllowed(s1)
        THEN [rs |-> s1, tm |-> m,
              result |-> [EventResult EXCEPT
                              !.Error = "cannot end ride in status",
                              !.Message = "session end failed"]]
        ELSE LET s2 == CASE event.EventType = TripEventTypeStart ->
                                [s1 EXCEPT !.Status = StatusOnboard,
                                           !.StartTime = event.Timestamp]
                         [] event.EventType = TripEventTypeEnd ->
                                [s1 EXCEPT !.Status = StatusCompleted,
                                           !.EndTime = <<event.Timestamp>>]
                         [] OTHER -> s1
                 log == CASE event.EventType = TripEventTypeStart -> <<"session start">>
                          [] event.EventType = TripEventTypeEnd -> <<"session end">>
                          [] OTHER -> <<>>
                 Result(meterResult) ==
                     IF meterResult.result.Error # ""
                     THEN [rs |-> s2, tm |-> meterResult.tm,
                           result |-> [EventResult EXCEPT
                                           !.LogMessages = log,
                                           !.Error = meterResult.result.Error,
                                           !.Message = meterResult.result.Message]]
                     ELSE [rs |-> s2, tm |-> meterResult.tm,
                           result |-> [EventResult EXCEPT
                                           !.Success = TRUE,
                                           !.Message = meterResult.result.Message,
                                           !.FareChange = meterResult.result.FareChange,
                                           !.NewTotalFare = GetCurrentFare(meterResult.tm),
                                           !.LogMessages =
                                               log \o meterResult.result.LogMessages]]
             IN  Result(TaxiMeterProcessEvent(m, event))

ProcessPaymentAnyStatus(s, m, method, t) ==
    IF s.PaymentInfo # <<>>
    THEN [rs |-> s,
          result |-> [EventResult EXCEPT
                          !.Error = "payment already processed",
                          !.Message = "payment failed: already paid"]]
    ELSE LET s2 == [s EXCEPT !.PaymentInfo =
                        <<[Method |-> method, Amount |-> GetCurrentFare(m),
                           ProcessedAt |-> t]>>]
         IN  [rs |-> s2,
              result |-> [EventResult EXCEPT
                              !.Success = TRUE,
                              !.Message = "payment completed",
                              !.NewTotalFare = s2.PaymentInfo[1].Amount,
                              !.LogMessages = <<"payment completed">>]]

ProcessPaymentAgain(s, m, method, t) ==
    IF s.Status # StatusCompleted
    THEN [rs |-> s,
          result |-> [EventResult EXCEPT
                          !.Error = "cannot process payment for incomplete ride",
                          !.Message = "payment failed: ride not completed"]]
    ELSE LET s2 == [s EXCEPT !.PaymentInfo =
                        <<[Method |-> method, Amount |-> GetCurrentFare(m),
                           ProcessedAt |-> t]>>]
         IN  [rs |-> s2,
              result |-> [EventResult EXCEPT
                              !.Success = TRUE,
                              !.Message = "payment completed",
                              !.NewTotalFare = s2.PaymentInfo[1].Amount,
                              !.LogMessages = <<"payment completed">>]]

\* RideSession.ProcessPayment
ProcessPayment(s, m, method, t) ==
    IF s.Status # StatusCompleted
    THEN [rs |-> s,
          result |-> [EventResult EXCEPT
                          !.Error = "cannot process payment for incomplete ride",
                          !.Message = "payment failed: ride not completed"]]
    ELSE IF s.PaymentInfo # <<>>
    THEN [rs |-> s,
          result |-> [EventResult EXCEPT
                          !.Error = "payment already processed",
                          !.Message = "payment failed: already paid"]]
    ELSE LET s2 == [s EXCEPT !.PaymentInfo =
                        <<[Method |-> method, Amount |-> GetCurrentFare(m),
                           ProcessedAt |-> t]>>]
         IN  [rs |-> s2,
              result |-> [EventResult EXCEPT
                              !.Success = TRUE,
                              !.Message = "payment completed",
                              !.NewTotalFare = s2.PaymentInfo[1].Amount,
                              !.LogMessages = <<"payment completed">>]]

\* RideSession.GetSessionSummary: the map, as the sequence of its entries
GetSessionSummary(s, m) ==
    << <<"session_id", s.SessionID>>, <<"driver", s.Driver>>,
       <<"passenger", s.Passenger>>, <<"status", s.Status>>,
       <<"start_time", s.StartTime>>, <<"end_time", s.EndTime>>,
       <<"total_distance", GetTotalDistance(m)>>,
       <<"final_fare", GetCurrentFare(m)>>,
       <<"event_count", Len(s.Events)>> >>
    \o (IF s.PaymentInfo # <<>>
        THEN << <<"payment_method", s.PaymentInfo[1].Method>>,
                <<"payment_processed", s.PaymentInfo[1].ProcessedAt>> >>
        ELSE <<>>)

----------------------------------------------------------------------------
(* Inputs *)

Distances == {70, 120, 190, 1500}
Durations == {45, 120}
Speeds == {6, 10, 24}
PaymentMethods == {PaymentMethodCash, PaymentMethodCard, PaymentMethodDigital}

\* an EventType outside the vocabulary: the zero value of TripEventType
UnknownEvent == TripEvent(0, 0, 0, 0)
StartEvent == TripEvent(TripEventTypeStart, 0, 0, 0)
EndEvent == TripEvent(TripEventTypeEnd, 0, 0, 0)
MoveEvent(d, t, s) == TripEvent(TripEventTypeMove, d, t, s)
StopEvent(t) == TripEvent(TripEventTypeStop, 0, t, 0)

\* the events list of main, with the durations it gives
events ==
    << StartEvent, MoveEvent(800, 120, 24), StopEvent(120),
       MoveEvent(500, 300, 6), MoveEvent(800, 120, 24), EndEvent >>

\* events given to a TaxiMeter
MeterEvents ==
    {StartEvent, EndEvent, UnknownEvent}
    \cup {StopEvent(t) : t \in Durations}
    \cup {MoveEvent(d, t, s) : d \in Distances, t \in Durations, s \in Speeds}

\* events given to a RideSession: those of main and an event of unknown type
SessionEvents == {events[i] : i \in 1..Len(events)} \cup {UnknownEvent}

----------------------------------------------------------------------------
(* History *)

Tags(result) == {result.LogMessages[i] : i \in 1..Len(result.LogMessages)}

\* hist.distance, hist.time: the amounts the distance-rate and the time-rate
\* rule have added since the last accepted Start; hist.run: the metres, the
\* fare and the number of moves of the current run of consecutive
\* distance-rate Moves; hist.changes: the sum of the FareChange of the
\* successful ProcessEvent results so far; hist.total: the NewTotalFare of the
\* latest of them
NewHist ==
    [distance |-> 0, time |-> 0,
     run |-> [metres |-> 0, fare |-> 0, moves |-> 0],
     changes |-> 0, total |-> 0]

HistAfter(h, m, m2, result) ==
    LET added == m2.CurrentFare - m.CurrentFare
        fresh == [metres |-> m2.TotalDistance.m, fare |-> m2.CurrentFare,
                  moves |-> 0]
        Accounted(h2) == [h2 EXCEPT !.changes = @ + result.FareChange,
                                    !.total = result.NewTotalFare]
    IN  IF ~result.Success THEN h
        ELSE IF "ride start" \in Tags(result)
        THEN Accounted([h EXCEPT !.distance = 0, !.time = 0, !.run = fresh])
        ELSE IF "normal move: distance-rate fare" \in Tags(result)
        THEN Accounted([h EXCEPT !.distance = @ + added, !.run.moves = @ + 1])
        ELSE IF Tags(result) \cap {"low-speed move: time-rate fare",
                                   "stopped: time-rate fare"} # {}
        THEN Accounted([h EXCEPT !.time = @ + added, !.run = fresh])
        ELSE Accounted([h EXCEPT !.run = fresh])

----------------------------------------------------------------------------
(* Specifications *)

Init ==
    /\ tm = NewTaxiMeter
    /\ rs = NewRideSession
    /\ ret = EventResult
    /\ call = [op |-> "NewRideSession", event |-> UnknownEvent]
    /\ now = 1
    /\ hist = NewHist

\* session.ProcessEvent(event)
SessionEvent ==
    /\ now <= MaxEvents
    /\ \E ev \in SessionEvents :
          \E event \in {[ev EXCEPT !.Timestamp = now]} :
          \E out \in {RideSessionProcessEvent(rs, tm, event)} :
              /\ rs' = out.rs
              /\ tm' = out.tm
              /\ ret' = out.result
              /\ call' = [op |-> "RideSession.ProcessEvent", event |-> event]
              /\ hist' = HistAfter(hist, tm, out.tm, out.result)
    /\ now' = now + 1

\* rideSession.ProcessPayment(method, now)
Payment ==
    /\ \E method \in PaymentMethods :
          \E out \in {ProcessPayment(rs, tm, method, now)} :
              /\ rs' = out.rs
              /\ ret' = out.result
              /\ call' = [op |-> "RideSession.ProcessPayment", event |-> UnknownEvent]
    /\ UNCHANGED <<tm, now, hist>>

\* session.GetSessionSummary()
Summary ==
    /\ ret' = GetSessionSummary(rs, tm)
    /\ call' = [op |-> "RideSession.GetSessionSummary", event |-> UnknownEvent]
    /\ UNCHANGED <<tm, rs, now, hist>>

Next == SessionEvent \/ Payment \/ Summary

Spec == Init /\ [][Next]_vars

\* tm.ProcessEvent(event) on a TaxiMeter used on its own
MeterEvent ==
    /\ now <= MaxMeterEvents
    /\ \E ev \in MeterEvents :
          \E event \in {[ev EXCEPT !.Timestamp = now]} :
          \E out \in {TaxiMeterProcessEvent(tm, event)} :
              /\ tm' = out.tm
              /\ ret' = out.result
              /\ call' = [op |-> "TaxiMeter.ProcessEvent", event |-> event]
              /\ hist' = HistAfter(hist, tm, out.tm, out.result)
    /\ now' = now + 1
    /\ UNCHANGED rs

MeterNext == MeterEvent

MeterSpec == Init /\ [][MeterNext]_vars

----------------------------------------------------------------------------
(* Claims *)

IsEvent(c, type) ==
    /\ c.op \in {"RideSession.ProcessEvent", "TaxiMeter.ProcessEvent"}
    /\ c.event.EventType = type

\* C1: payment exactly-once.  Once PaymentInfo is set no call changes it, every
\* later ProcessPayment fails with "payment already processed", and the
\* PaymentInfo a call sets carries the CurrentFare the meter had at that call.
C1_PaymentExactlyOnce ==
    [][/\ rs.PaymentInfo # <<>> => rs'.PaymentInfo = rs.PaymentInfo
       /\ (rs.PaymentInfo # <<>> /\ call'.op = "RideSession.ProcessPayment")
              => (~ret'.Success /\ ret'.Error = "payment already processed")
       /\ (rs.PaymentInfo = <<>> /\ rs'.PaymentInfo # <<>>)
              => /\ call'.op = "RideSession.ProcessPayment"
                 /\ ret'.Success
                 /\ rs'.PaymentInfo[1].Amount = tm.CurrentFare
                 /\ Len(rs'.PaymentInfo) = 1]_vars

\* a second ProcessPayment has just failed, after events that followed the
\* first one
C1_Witness ==
    /\ rs.PaymentInfo # <<>>
    /\ call.op = "RideSession.ProcessPayment"
    /\ ret.Error = "payment already processed"
    /\ Len(rs.Events) >= rs.PaymentInfo[1].ProcessedAt

\* C2: a Start event while Status is not Waiting, and an End event while Status
\* is not Onboard, fails; the event is appended to Events, the Meter and
\* Status are left as they were.
C2_TransitionLegality ==
    [][(/\ call'.op = "RideSession.ProcessEvent"
        /\ \/ IsEvent(call', TripEventTypeStart) /\ rs.Status # StatusWaiting
           \/ IsEvent(call', TripEventTypeEnd) /\ rs.Status # StatusOnboard)
       => /\ ~ret'.Success
          /\ ret'.Error = (IF IsEvent(call', TripEventTypeStart)
                           THEN "cannot start ride in status"
                           ELSE "cannot end ride in status")
          /\ rs'.Events = Append(rs.Events, call'.event)
          /\ tm' = tm
          /\ rs'.Status = rs.Status]_vars

\* an End before any Start was rejected, and now a Start on the Completed
\* session has been rejected
C2_Witness ==
    /\ Len(rs.Events) >= 4
    /\ rs.Events[1].EventType = TripEventTypeEnd
    /\ rs.Status = StatusCompleted
    /\ IsEvent(call, TripEventTypeStart)
    /\ ret.Error = "cannot start ride in status"
    /\ tm.CurrentFare > config.InitialFare

ValidMeterEvent(m, event) ==
    \/ event.EventType = TripEventTypeStart /\ ~m.IsRunning
    \/ /\ event.EventType \in {TripEventTypeMove, TripEventTypeStop,
                               TripEventTypeEnd}
       /\ m.IsRunning

\* C3 as stated: after every valid event given to TaxiMeter.ProcessEvent,
\* CurrentFare is greater than or equal to CurrentFare before it.
C3_MonotonicFare ==
    [][(call'.op = "TaxiMeter.ProcessEvent" /\ ValidMeterEvent(tm, call'.event))
       => tm'.CurrentFare >= tm.CurrentFare]_vars

\* C3 as amended: after every valid Move, Stop and End CurrentFare is greater
\* than or equal to CurrentFare before it; a valid Start sets CurrentFare to
\* InitialFare whatever it was.
C3_MonotonicWithinTrip ==
    [][(call'.op = "TaxiMeter.ProcessEvent" /\ ValidMeterEvent(tm, call'.event))
       => /\ ret'.Success
          /\ IF IsEvent(call', TripEventTypeStart)
             THEN tm'.CurrentFare = config.InitialFare
             ELSE tm'.CurrentFare >= tm.CurrentFare]_vars

\* a second trip is running and has been charged beyond the initial fare
C3_Witness ==
    /\ tm.IsRunning
    /\ tm.StartTime >= 3
    /\ tm.CurrentFare > config.InitialFare

\* the decimal number of whole units that metres of cumulative distance hold
\* beyond the initial distance
ExactUnits(metres) ==
    IF metres <= config.InitialDistance.m THEN 0
    ELSE (metres - config.InitialDistance.m) \div config.UnitDistance.m

\* the meter after one more distance as a Move like event
MoveBy(m, metres, event) ==
    processMovement(m, [event EXCEPT !.Distance = F64Lit(metres)]).tm

\* the split points D1 of a distance of D metres for which D1 + D2 = D in
\* decimal and in float64 alike
SplitPoints(D) ==
    {d1 \in {0} \cup Distances :
        d1 <= D /\ F64Add(F64Lit(d1), F64Lit(D - d1)) = F64Lit(D)}

\* C4: additivity of the unit-crossing rule.  From any running meter state a
\* distance-rate Move of distance D leaves the same CurrentFare and the same
\* TotalDistance as two distance-rate Moves of D1 and D2, D1 + D2 = D.
C4_Additivity ==
    [][(/\ call'.op = "TaxiMeter.ProcessEvent"
        /\ IsEvent(call', TripEventTypeMove)
        /\ tm.IsRunning
        /\ call'.event.Speed > config.TimeThreshold)
       => \A d1 \in SplitPoints(call'.event.Distance.m) :
             LET first == MoveBy(tm, d1, [call'.event EXCEPT !.Duration = 0])
                 both == MoveBy(first, call'.event.Distance.m - d1, call'.event)
             IN  /\ both.CurrentFare = tm'.CurrentFare
                 /\ both.TotalDistance = tm'.TotalDistance]_vars

\* C5: no double-charging.  When the consecutive distance-rate Moves of the
\* current run have taken the cumulative distance across exactly one unit
\* boundary, the fare has risen by exactly one UnitFare over the run.
C5_NoDoubleCharging ==
    (/\ tm.IsRunning
     /\ hist.run.moves >= 1
     /\ ExactUnits(tm.TotalDistance.m) - ExactUnits(hist.run.metres) = 1)
    => tm.CurrentFare - hist.run.fare = config.UnitFare

\* C6: every distance unit crossing triggers one fare increment.  In every
\* state of a ride the amount charged for distance since Start is
\* floor(max(0, TotalDistance - InitialDistance) / UnitDistance) * UnitFare.
C6_DistanceChargedIsUnitsCrossed ==
    tm.IsRunning
    => hist.distance = ExactUnits(tm.TotalDistance.m) * config.UnitFare

\* C7: threshold tie-break and mode exclusivity.  An accepted Move with
\* Speed <= TimeThreshold, Speed = TimeThreshold included, adds
\* floor(Duration / TimeUnit) * TimeUnitFare and nothing for distance; an
\* accepted Move with Speed > TimeThreshold adds the distance-rate amount and
\* nothing for time.
C7_ThresholdTieBreak ==
    [][(/\ call'.op = "TaxiMeter.ProcessEvent"
        /\ IsEvent(call', TripEventTypeMove)
        /\ tm.IsRunning)
       => LET event == call'.event
              added == tm'.CurrentFare - tm.CurrentFare
          IN  IF event.Speed <= config.TimeThreshold
              THEN /\ added = (event.Duration \div config.TimeUnit)
                                  * config.TimeUnitFare
                   /\ hist'.time = hist.time + added
                   /\ hist'.distance = hist.distance
              ELSE /\ added = calculateDistanceFare(tm', event.Distance).Amount
                   /\ hist'.distance = hist.distance + added
                   /\ hist'.time = hist.time]_vars

\* a Move at exactly the threshold speed took the meter over the first unit
\* boundary in less than one time unit: nothing was charged
C7_Witness ==
    /\ IsEvent(call, TripEventTypeMove)
    /\ call.event.Speed = config.TimeThreshold
    /\ call.event.Duration < config.TimeUnit
    /\ ret.Success
    /\ ret.FareChange = 0
    /\ ExactUnits(tm.TotalDistance.m) = 1
    /\ tm.TotalDistance = call.event.Distance

SameEvent(a, b) == [a EXCEPT !.Timestamp = 0] = [b EXCEPT !.Timestamp = 0]

\* Events is the first k events of main
LogIsScenario(k) ==
    /\ Len(rs.Events) = k
    /\ \A i \in 1..k : SameEvent(rs.Events[i], events[i])

ExpectedFares == <<500, 500, 600, 900, 1300, 1300>>

\* C8: the worked scenario.  The events of main are all accepted, the fare
\* after each is 500, 500, 600, 900, 1300, 1300 and the payment that follows
\* succeeds with amount 1300.
C8_WorkedScenario ==
    \A k \in 1..Len(events) :
        LogIsScenario(k)
        => /\ tm.CurrentFare = ExpectedFares[k]
           /\ call.op = "RideSession.ProcessEvent"
                  => (ret.Success /\ ret.NewTotalFare = ExpectedFares[k])
           /\ (k = Len(events) /\ call.op = "RideSession.ProcessPayment")
                  => /\ rs.PaymentInfo # <<>>
                     /\ ret.Success \/ ret.Error = "payment already processed"
           /\ rs.PaymentInfo # <<>>
                  => /\ k = Len(events)
                     /\ rs.PaymentInfo[1].Amount = ExpectedFares[k]

\* the scenario has been run to its end and paid
C8_Witness ==
    /\ LogIsScenario(Len(events))
    /\ call.op = "RideSession.ProcessPayment"
    /\ ret.Success
    /\ rs.PaymentInfo # <<>>

\* C9: the audit log is append-only and complete.  Every ProcessEvent call,
\* accepted or rejected, appends exactly its event at the end of Events;
\* ProcessPayment and GetSessionSummary leave Events as it was.
C9_AuditLog ==
    [][/\ call'.op = "RideSession.ProcessEvent"
              => rs'.Events = Append(rs.Events, call'.event)
       /\ call'.op \in {"RideSession.ProcessPayment",
                        "RideSession.GetSessionSummary"}
              => rs'.Events = rs.Events]_vars

\* an event of unknown type has been rejected and is the last of at least
\* three logged events, the first of them a rejected Move
C9_Witness ==
    /\ Len(rs.Events) >= 3
    /\ call.op = "RideSession.ProcessEvent"
    /\ call.event.EventType = UnknownEvent.EventType
    /\ ~ret.Success
    /\ rs.Events[Len(rs.Events)] = call.event
    /\ rs.Events[1].EventType = TripEventTypeMove

\* C10: session lifecycle order.  Status starts at Waiting; its only changes
\* are Waiting to Onboard on an accepted Start and Onboard to Completed on an
\* accepted End; PickingUp and Cancelled are never reached.
C10_LifecycleOrder ==
    /\ rs.Status = StatusWaiting
    /\ [][/\ rs'.Status \in {StatusWaiting, StatusOnboard, StatusCompleted}
          /\ rs'.Status # rs.Status
                 => \/ /\ rs.Status = StatusWaiting
                       /\ rs'.Status = StatusOnboard
                       /\ IsEvent(call', TripEventTypeStart)
                       /\ ret'.Success
                    \/ /\ rs.Status = StatusOnboard
                       /\ rs'.Status = StatusCompleted
                       /\ IsEvent(call', TripEventTypeEnd)
                       /\ ret'.Success]_vars

\* a Move has been given to the Completed session, which stays Completed
C10_Witness ==
    /\ rs.Status = StatusCompleted
    /\ call.op = "RideSession.ProcessEvent"
    /\ call.event.EventType \in {TripEventTypeMove, TripEventTypeStop}
    /\ ~ret.Success

\* C11: a failed event never mutates the session.  Whenever
\* RideSession.ProcessEvent returns Success = false, Status, StartTime, EndTime,
\* PaymentInfo and the Meter's IsRunning, CurrentFare, TotalDistance and
\* TotalTime are what they were before the call, and Events has grown by the
\* event; in particular no status update is followed by a Meter failure.
C11_FailedEventNeverMutates ==
    [][(call'.op = "RideSession.ProcessEvent" /\ ~ret'.Success)
       => /\ rs'.Status = rs.Status
          /\ rs'.StartTime = rs.StartTime
          /\ rs'.EndTime = rs.EndTime
          /\ rs'.PaymentInfo = rs.PaymentInfo
          /\ tm'.IsRunning = tm.IsRunning
          /\ tm'.CurrentFare = tm.CurrentFare
          /\ tm'.TotalDistance = tm.TotalDistance
          /\ tm'.TotalTime = tm.TotalTime
          /\ rs'.Events = Append(rs.Events, call'.event)
          /\ ret'.Error # ""]_vars

\* the Meter has rejected a Move given to a Completed, paid session that holds
\* a fare, a distance and a time, after the session had rejected a Start
C11_Witness ==
    /\ call.op = "RideSession.ProcessEvent"
    /\ IsEvent(call, TripEventTypeMove)
    /\ ~ret.Success
    /\ ret.Error = "trip not started"
    /\ rs.Status = StatusCompleted
    /\ rs.PaymentInfo # <<>>
    /\ tm.CurrentFare > config.InitialFare
    /\ tm.TotalDistance.m > 0
    /\ tm.TotalTime > 0
    /\ \E i \in 2..Len(rs.Events) : rs.Events[i].EventType = TripEventTypeStart

\* C12: payment only after completion.  PaymentInfo is set only while Status is
\* Completed; ProcessPayment called while Status is not Completed fails with
\* the not-completed error and leaves PaymentInfo unset; PaymentInfo, once set,
\* is never overwritten or cleared.
C12_PaymentOnlyAfterCompletion ==
    /\ [](rs.PaymentInfo # <<>> => rs.Status = StatusCompleted)
    /\ [][/\ (call'.op = "RideSession.ProcessPayment"
               /\ rs.Status # StatusCompleted)
                  => /\ ~ret'.Success
                     /\ ret'.Error = "cannot process payment for incomplete ride"
                     /\ rs'.PaymentInfo = <<>>
                     /\ rs' = rs
          /\ rs.PaymentInfo # <<>> => rs'.PaymentInfo = rs.PaymentInfo]_vars

\* a payment has just been refused for a ride that is under way and has been
\* charged beyond the initial fare
C12_Witness ==
    /\ call.op = "RideSession.ProcessPayment"
    /\ ret.Error = "cannot process payment for incomplete ride"
    /\ rs.Status = StatusOnboard
    /\ rs.PaymentInfo = <<>>
    /\ tm.CurrentFare > config.InitialFare

\* the events that need a running meter
NeedRunning ==
    {ev \in SessionEvents :
        ev.EventType \in {TripEventTypeMove, TripEventTypeStop, TripEventTypeEnd}}

\* C13: meter operations need a running meter.  A Move, Stop or End processed
\* by a Meter that is not running, as the session leaves it before any
\* accepted Start and after an accepted End, fails with "trip not started" and leaves CurrentFare,
\* TotalDistance, TotalTime and IsRunning unchanged; a Move or Stop given to a
\* session in status Waiting or Completed therefore fails.
C13_NeedsRunningMeter ==
    [][/\ (call'.op = "RideSession.ProcessEvent" /\ ~tm'.IsRunning)
              => \A ev \in NeedRunning :
                     \E out \in {TaxiMeterProcessEvent(tm', ev)} :
                         /\ ~out.result.Success
                         /\ out.result.Error = "trip not started"
                         /\ out.tm = tm'
       /\ (/\ call'.op = "RideSession.ProcessEvent"
           /\ call'.event.EventType \in {TripEventTypeMove, TripEventTypeStop}
           /\ rs.Status \in {StatusWaiting, StatusCompleted})
              => /\ ~ret'.Success
                 /\ ret'.Error = "trip not started"
                 /\ tm' = tm]_vars

\* a Stop has been refused after the ride ended, the meter keeping the fare,
\* the distance and the time of the ride
C13_Witness ==
    /\ call.op = "RideSession.ProcessEvent"
    /\ IsEvent(call, TripEventTypeStop)
    /\ ret.Error = "trip not started"
    /\ rs.Status = StatusCompleted
    /\ ~tm.IsRunning
    /\ tm.CurrentFare > config.InitialFare
    /\ tm.TotalTime > 0

\* C14: distance-rate calculation.  An accepted Move with Speed > TimeThreshold
\* and distance d, taking the cumulative distance from T - d to T, raises
\* CurrentFare by exactly
\*   max(0, floor(max(0, T - InitialDistance) / UnitDistance)
\*          - floor(max(0, T - d - InitialDistance) / UnitDistance)) * UnitFare.
C14_DistanceRateCalculation ==
    [][(/\ call'.op = "TaxiMeter.ProcessEvent"
        /\ IsEvent(call', TripEventTypeMove)
        /\ tm.IsRunning
        /\ call'.event.Speed > config.TimeThreshold)
       => LET T == tm'.TotalDistance.m
              d == call'.event.Distance.m
              units == ExactUnits(T) - ExactUnits(T - d)
          IN  /\ ret'.Success
              /\ tm'.CurrentFare - tm.CurrentFare =
                     (IF units > 0 THEN units ELSE 0) * config.UnitFare]_vars

\* C15: time-rate calculation is per segment.  An accepted Stop of duration t,
\* and an accepted Move with Speed <= TimeThreshold and duration t, raises
\* CurrentFare by exactly floor(t / TimeUnit) * TimeUnitFare whatever TotalTime
\* has accumulated; Stop adds t to TotalTime and leaves TotalDistance as it
\* was.
C15_TimeRatePerSegment ==
    [][(/\ call'.op = "TaxiMeter.ProcessEvent"
        /\ tm.IsRunning
        /\ \/ IsEvent(call', TripEventTypeStop)
           \/ /\ IsEvent(call', TripEventTypeMove)
              /\ call'.event.Speed <= config.TimeThreshold)
       => LET t == call'.event.Duration
          IN  /\ ret'.Success
              /\ tm'.CurrentFare - tm.CurrentFare =
                     (t \div config.TimeUnit) * config.TimeUnitFare
              /\ ret'.FareChange = (t \div config.TimeUnit) * config.TimeUnitFare
              /\ tm'.TotalTime = tm.TotalTime + t
              /\ IsEvent(call', TripEventTypeStop)
                     => tm'.TotalDistance = tm.TotalDistance]_vars

\* a Stop shorter than a time unit has been accepted after other such
\* segments: more than a time unit has accumulated and nothing was charged
C15_Witness ==
    /\ call.op = "TaxiMeter.ProcessEvent"
    /\ IsEvent(call, TripEventTypeStop)
    /\ ret.Success
    /\ call.event.Duration < config.TimeUnit
    /\ tm.TotalTime >= config.TimeUnit
    /\ tm.TotalDistance.m > 0
    /\ hist.time = 0
    /\ tm.CurrentFare = config.InitialFare

\* C16: Meter Start.  A Start on a Meter that is not running sets IsRunning,
\* CurrentFare = InitialFare, TotalDistance = 0 and TotalTime = 0 whatever they
\* were; a Start on a running Meter fails with "trip already started" and
\* leaves the Meter as it was.
C16_MeterStart ==
    [][(call'.op = "TaxiMeter.ProcessEvent" /\ IsEvent(call', TripEventTypeStart))
       => IF ~tm.IsRunning
          THEN /\ ret'.Success
               /\ tm'.IsRunning
               /\ tm'.CurrentFare = config.InitialFare
               /\ tm'.TotalDistance.m = 0 /\ tm'.TotalDistance.e = 0
               /\ tm'.TotalTime = 0
               /\ tm'.StartTime = call'.event.Timestamp
               /\ tm'.LastEventTime = call'.event.Timestamp
          ELSE /\ ~ret'.Success
               /\ ret'.Error = "trip already started"
               /\ tm' = tm]_vars

\* a Start has been accepted by a Meter whose earlier, ended trip had been
\* charged beyond the initial fare: the fare went down to InitialFare
C16_Witness ==
    /\ call.op = "TaxiMeter.ProcessEvent"
    /\ IsEvent(call, TripEventTypeStart)
    /\ ret.Success
    /\ ret.FareChange < 0
    /\ tm.IsRunning
    /\ tm.CurrentFare = config.InitialFare
    /\ tm.TotalTime = 0

\* C17: result accounting.  For every RideSession.ProcessEvent call that
\* returns Success = true, FareChange is the Meter's CurrentFare after the call
\* minus CurrentFare before it and NewTotalFare is CurrentFare after the call;
\* hence NewTotalFare of the latest successful result is the sum of the
\* FareChange of all successful results so far, Start contributing InitialFare
\* and End contributing 0.
C17_ResultAccounting ==
    /\ [](hist.total = hist.changes)
    /\ [][(call'.op = "RideSession.ProcessEvent" /\ ret'.Success)
          => /\ ret'.FareChange = tm'.CurrentFare - tm.CurrentFare
             /\ ret'.NewTotalFare = tm'.CurrentFare
             /\ hist'.changes = hist.changes + ret'.FareChange
             /\ hist'.total = ret'.NewTotalFare
             /\ IsEvent(call', TripEventTypeStart)
                    => ret'.FareChange = config.InitialFare
             /\ IsEvent(call', TripEventTypeEnd) => ret'.FareChange = 0]_vars

\* the End of a ride has been accepted after a Start and three charged
\* segments, with rejected events in between
C17_Witness ==
    /\ call.op = "RideSession.ProcessEvent"
    /\ IsEvent(call, TripEventTypeEnd)
    /\ ret.Success
    /\ ret.FareChange = 0
    /\ ret.NewTotalFare = hist.changes
    /\ hist.changes >= config.InitialFare + 3 * config.UnitFare
    /\ hist.distance > 0
    /\ hist.time > 0
    /\ \E i \in 1..Len(rs.Events) : rs.Events[i].EventType = UnknownEvent.EventType

\* C18: coupling of the session and its Meter.  In every state reachable
\* through RideSession.ProcessEvent and ProcessPayment from NewRideSession the
\* Meter is running exactly when Status is Onboard (in Waiting it is not
\* running and its fare is 0, in Completed it is not running), and EndTime is
\* set exactly when Status is Completed.
C18_Coupling ==
    /\ tm.IsRunning <=> rs.Status = StatusOnboard
    /\ rs.Status = StatusWaiting => (~tm.IsRunning /\ tm.CurrentFare = 0)
    /\ rs.Status = StatusCompleted => ~tm.IsRunning
    /\ rs.EndTime # <<>> <=> rs.Status = StatusCompleted

\* the ride was completed after rejected events, was paid, and the session has
\* since rejected an End
C18_Witness ==
    /\ rs.Status = StatusCompleted
    /\ rs.EndTime # <<>>
    /\ rs.EndTime[1] >= 4
    /\ ~tm.IsRunning
    /\ tm.CurrentFare > config.InitialFare
    /\ rs.PaymentInfo # <<>>
    /\ IsEvent(call, TripEventTypeEnd)
    /\ ret.Error = "cannot end ride in status"

\* C19: driven only through RideSession.ProcessEvent the Meter's CurrentFare
\* never decreases, whatever the events, accepted or rejected; the session
\* accepts at most one Start (a Start is accepted only in Waiting, and Waiting
\* is never entered again), so the fare is set to InitialFare at most once and
\* never reset.
C19_FareNeverDecreases ==
    [][/\ tm'.CurrentFare >= tm.CurrentFare
       /\ (/\ call'.op = "RideSession.ProcessEvent"
           /\ IsEvent(call', TripEventTypeStart)
           /\ ret'.Success)
              => /\ rs.Status = StatusWaiting
                 /\ rs'.Status = StatusOnboard
                 /\ tm.CurrentFare = 0
                 /\ tm'.CurrentFare = config.InitialFare
       /\ rs.Status # StatusWaiting
              => /\ rs'.Status # StatusWaiting
                 /\ IsEvent(call', TripEventTypeStart) => ~ret'.Success
                 /\ tm'.CurrentFare >= config.InitialFare]_vars

\* a second Start has been rejected while the ride is under way and charged
\* beyond the initial fare
C19_Witness ==
    /\ call.op = "RideSession.ProcessEvent"
    /\ IsEvent(call, TripEventTypeStart)
    /\ ret.Error = "cannot start ride in status"
    /\ rs.Status = StatusOnboard
    /\ tm.IsRunning
    /\ tm.CurrentFare > config.InitialFare

\* C20: once Status is Completed no ProcessEvent or ProcessPayment call changes
\* the Meter's CurrentFare, TotalDistance or TotalTime; so wherever
\* PaymentInfo is set its Amount is the Meter's CurrentFare, the final_fare
\* that GetSessionSummary reports.
C20_FrozenAfterCompleted ==
    /\ [](rs.PaymentInfo # <<>>
             => /\ rs.PaymentInfo[1].Amount = tm.CurrentFare
                /\ GetSessionSummary(rs, tm)[8] =
                       <<"final_fare", rs.PaymentInfo[1].Amount>>
                /\ call.op = "RideSession.GetSessionSummary"
                       => ret[8] = <<"final_fare", rs.PaymentInfo[1].Amount>>)
    /\ [][rs.Status = StatusCompleted
              => /\ tm'.CurrentFare = tm.CurrentFare
                 /\ tm'.TotalDistance = tm.TotalDistance
                 /\ tm'.TotalTime = tm.TotalTime
                 /\ rs'.Status = StatusCompleted]_vars

\* the summary of a paid ride has been read after the Completed session was
\* given a further Move or Stop
C20_Witness ==
    /\ call.op = "RideSession.GetSessionSummary"
    /\ rs.Status = StatusCompleted
    /\ rs.PaymentInfo # <<>>
    /\ rs.PaymentInfo[1].Amount > config.InitialFare
    /\ Len(rs.Events) >= rs.PaymentInfo[1].ProcessedAt
    /\ rs.Events[Len(rs.Events)].EventType
           \in {TripEventTypeMove, TripEventTypeStop}

====
